---- MODULE Spec2Model ----
(***************************************************************************)
(* Model of the videohash indexer: the fingerprint codec, the in-memory    *)
(* index store (hashes map + lazily built MIH index), the /search and      *)
(* /hash/{id} handlers with the BigQuery backup, and the store's locking.  *)
(*                                                                         *)
(* A 64-bit code is the set of its one-bit positions (0 = least            *)
(* significant bit), so popcount(a XOR b) is the size of the symmetric     *)
(* difference.  A hash string is a sequence of one-character strings.      *)
(* Video identifiers are 1..MaxIds; their numeric order stands for the     *)
(* lexicographic order of the identifier strings.                          *)
(***************************************************************************)
EXTENDS Integers, Sequences, FiniteSets, TLC

VARIABLES
    hashes,     \* VideoHashIndex.hashes: video_id -> code
    index,      \* VideoHashIndex.index: Option<(Index<u64>, Vec<String>)>
    warehouse,  \* rows inserted into the BigQuery table, oldest first
    req,        \* the call or request handled last (sequential specifications)
    resp,       \* its result or response
    pc,         \* per thread: position inside the store operation it runs
    local,      \* per thread: the call it runs or ran last, its locals, its result
    hashesLock, \* RwLock around hashes: [writer, readers]
    indexLock   \* RwLock around index: [writer, readers]

vars == <<hashes, index, warehouse, req, resp, pc, local, hashesLock, indexLock>>

-----------------------------------------------------------------------------
(* Bounds and inputs *)

MaxIds == 2
MaxRows == 1

VideoIds == 1..MaxIds

CODE_BITS == 64
NUM_BLOCKS == 8
MAX_HAMMING_DISTANCE == 10
BACKUP_MAX_RETRIES == 3

BitPositions == 0..(CODE_BITS - 1)

\* The code whose k least significant bits are one: "0" x (64-k) + "1" x k.
LowBits(k) == {b \in BitPositions : b < k}

\* Input codes 0^64, 0^54 1^10 and 0^53 1^11: pairwise distances 10, 11 and 1.
Codes == {LowBits(0), LowBits(MAX_HAMMING_DISTANCE), LowBits(MAX_HAMMING_DISTANCE + 1)}

\* Search radii offered to find_within_distance.
Radii == {0, MAX_HAMMING_DISTANCE, CODE_BITS}

\* The 64-character string of a code, most significant bit first.
BinaryString(code) ==
    [i \in 1..CODE_BITS |-> IF (CODE_BITS - i) \in code THEN "1" ELSE "0"]

\* Strings that are no fingerprint: 63 and 65 characters, a foreign symbol,
\* and a sign followed by 63 digits.
BadStrings ==
    { [i \in 1..(CODE_BITS - 1) |-> "0"],
      [i \in 1..(CODE_BITS + 1) |-> "0"],
      [i \in 1..CODE_BITS |-> IF i = 1 THEN "2" ELSE "0"],
      [i \in 1..CODE_BITS |-> IF i = 1 THEN "+" ELSE "0"] }

GoodStrings == {BinaryString(c) : c \in Codes}
HashStrings == GoodStrings \cup BadStrings

-----------------------------------------------------------------------------
(* Result and Option values *)

Ok(v) == [ok |-> TRUE, val |-> v]
Err(e) == [ok |-> FALSE, err |-> e]
None == <<>>
Some(x) == <<x>>

\* All orders in which the elements of a finite set can be enumerated.
Orders(S) ==
    {s \in [1..Cardinality(S) -> S] : \A i, j \in 1..Cardinality(S) : s[i] = s[j] => i = j}

Range(s) == {s[i] : i \in 1..Len(s)}

-----------------------------------------------------------------------------
(* Codec *)

\* Faulty variant: only the length is checked.
from_binary_string_length_only(binary_str) ==
    IF Len(binary_str) # CODE_BITS
    THEN Err("Binary string must be 64 bits")
    ELSE Ok([hash |-> binary_str])

\* VideoHash::from_binary_string: length check, then every character.
from_binary_string(binary_str) ==
    IF Len(binary_str) # CODE_BITS
    THEN Err("Binary string must be 64 bits")
    ELSE IF \E i \in 1..Len(binary_str) : binary_str[i] # "0" /\ binary_str[i] # "1"
         THEN Err("Invalid character in binary string")
         ELSE Ok([hash |-> binary_str])

\* The digits of from_str_radix after the optional sign: at least one, all
\* binary; the value is returned as its set of one-bit positions.
parse_digits(digits) ==
    IF Len(digits) = 0
    THEN Err("Invalid binary string: empty")
    ELSE IF \E i \in 1..Len(digits) : digits[i] \notin {"0", "1"}
         THEN Err("Invalid binary string: invalid digit")
         ELSE Ok({Len(digits) - i : i \in {j \in 1..Len(digits) : digits[j] = "1"}})

\* u64::from_str_radix(s, 2): an optional leading '+', then the digits.
\* (No more than 64 digits reach it, so the value always fits in 64 bits.)
from_str_radix_2(s) ==
    parse_digits(IF Len(s) > 0 /\ s[1] = "+" THEN Tail(s) ELSE s)

binary_string_to_u64(binary_str) ==
    IF Len(binary_str) # CODE_BITS
    THEN Err("Binary string must be 64 bits")
    ELSE from_str_radix_2(binary_str)

\* Both parsers are pure functions of the string: their values over the
\* strings the model uses are computed once.
video_hash_of == [s \in HashStrings |-> from_binary_string(s)]
hash_value_of == [s \in HashStrings |-> binary_string_to_u64(s)]

\* (a ^ b).count_ones()
HammingDist(a, b) == Cardinality((a \ b) \cup (b \ a))

-----------------------------------------------------------------------------
(* The MIH engine (crate mih_rs), by its contract.  An engine is the code  *)
(* sequence it was built over; a position p (0-based) stands for codes[p+1]. *)

with_blocks(codes, num_blocks) ==
    IF Len(codes) = 0 \/ num_blocks < 2 \/ num_blocks > CODE_BITS
    THEN Err("invalid index parameters")
    ELSE Ok([codes |-> codes, num_blocks |-> num_blocks])

Positions(engine) == 0..(Len(engine.codes) - 1)

\* range_searcher().run(q, r): every position within distance r of q, in an
\* order the engine does not specify: the set of possible answer sequences.
range_search(engine, q, r) ==
    Orders({p \in Positions(engine) : HammingDist(engine.codes[p + 1], q) <= r})

\* Position p1 is a better answer than p2: nearer, or as near and lower.
Before(engine, q, p1, p2) ==
    \/ HammingDist(engine.codes[p1 + 1], q) < HammingDist(engine.codes[p2 + 1], q)
    \/ /\ HammingDist(engine.codes[p1 + 1], q) = HammingDist(engine.codes[p2 + 1], q)
       /\ p1 < p2

FirstK(ranked, k) == SubSeq(ranked, 1, IF k < Len(ranked) THEN k ELSE Len(ranked))

\* topk_searcher().run(q, k): up to k positions of smallest distance, ties by
\* ascending position.
topk_search(engine, q, k) ==
    FirstK(CHOOSE s \in Orders(Positions(engine)) :
               \A i, j \in 1..Len(s) : i < j => Before(engine, q, s[i], s[j]),
           k)

-----------------------------------------------------------------------------
(* The index store, src/src/index.rs.  Every operation is a function of    *)
(* the store's fields and its arguments; where the code's result depends   *)
(* on HashMap iteration order or on the engine's answer order, the         *)
(* operator yields the set of possible outcomes.  Operators named *_with   *)
(* are the rest of a function body after a value it computes first.        *)

Unit == "unit"

Insert(h, video_id, hash_value) ==
    [v \in DOMAIN h \cup {video_id} |-> IF v = video_id THEN hash_value ELSE h[v]]

Delete(h, video_id) == [v \in DOMAIN h \ {video_id} |-> h[v]]

EmptyMap == [v \in {} |-> {}]

\* Faulty variant: a code already stored for the identifier is kept.
add_with_keeps_existing(h, idx, video_id, hash_value) ==
    IF ~hash_value.ok
    THEN [hashes |-> h, index |-> idx, result |-> hash_value]
    ELSE [hashes |-> IF video_id \in DOMAIN h THEN h ELSE Insert(h, video_id, hash_value.val),
          index  |-> None,
          result |-> Ok(Unit)]

\* add after the parse: lines 38-44.
add_with(h, idx, video_id, hash_value) ==
    IF ~hash_value.ok
    THEN [hashes |-> h, index |-> idx, result |-> hash_value]
    ELSE [hashes |-> Insert(h, video_id, hash_value.val),
          index  |-> None,
          result |-> Ok(Unit)]

\* VideoHashIndex::add
add(h, idx, video_id, hash) ==
    add_with(h, idx, video_id, hash_value_of[hash.hash])

\* has_exact_match after the parse: lines 54-59.
has_exact_match_with(h, video_id, hash_value) ==
    IF ~hash_value.ok
    THEN hash_value
    ELSE IF video_id \in DOMAIN h
         THEN Ok(h[video_id] = hash_value.val)
         ELSE Ok(FALSE)

\* VideoHashIndex::has_exact_match
has_exact_match(h, video_id, hash) ==
    has_exact_match_with(h, video_id, hash_value_of[hash.hash])

\* The (video_id, hash) pairs in one HashMap iteration order.
video_id_hash_pairs(h, order) == [i \in 1..Len(order) |-> <<order[i], h[order[i]]>>]

pair_ids(pairs) == [i \in 1..Len(pairs) |-> pairs[i][1]]

pair_codes(pairs) == [i \in 1..Len(pairs) |-> pairs[i][2]]

\* Faulty variant: a failed build leaves an engine without codes in place.
store_built_partial(built, video_ids) ==
    IF built.ok
    THEN [index |-> Some([engine |-> built.val, video_ids |-> video_ids]), result |-> Ok(Unit)]
    ELSE [index |-> Some([engine |-> [codes |-> <<>>, num_blocks |-> NUM_BLOCKS],
                          video_ids |-> video_ids]),
          result |-> Err("Failed to create MIH index")]

\* The match on the engine's build result: lines 87-94.
store_built(built, video_ids) ==
    IF built.ok
    THEN [index |-> Some([engine |-> built.val, video_ids |-> video_ids]), result |-> Ok(Unit)]
    ELSE [index |-> None, result |-> Err("Failed to create MIH index")]

\* Faulty variant: the codes are handed to the engine in the opposite order.
build_from_pairs_misaligned(pairs) ==
    store_built(with_blocks([i \in 1..Len(pairs) |-> pairs[Len(pairs) + 1 - i][2]], NUM_BLOCKS),
                pair_ids(pairs))

\* Lines 78-94: split the pairs, build the engine, store it.
build_from_pairs(pairs) ==
    store_built(with_blocks(pair_codes(pairs), NUM_BLOCKS), pair_ids(pairs))

\* VideoHashIndex::ensure_index_built: the possible [index, result] outcomes,
\* one per iteration order of the map (the pairs are never sorted).
ensure_index_built(h, idx) ==
    IF idx # None
    THEN {[index |-> idx, result |-> Ok(Unit)]}
    ELSE IF DOMAIN h = {}
         THEN {[index |-> None, result |-> Ok(Unit)]}
         ELSE {build_from_pairs(video_id_hash_pairs(h, order)) : order \in Orders(DOMAIN h)}

Panic == Err("panic: called Option::unwrap() on a None value")

\* Lines 127-132: translate the position, look the id up in hashes.
nearest_entry(h, video_id, hash_value) ==
    IF video_id \notin DOMAIN h
    THEN Panic
    ELSE Ok(Some(<<video_id, HammingDist(hash_value, h[video_id])>>))

\* Lines 118-132: the engine's answers to a result.
nearest_of_answers(h, video_ids, hash_value, answers) ==
    IF answers = <<>>
    THEN Ok(None)
    ELSE IF answers[1] >= Len(video_ids)
         THEN Err("Index inconsistency: invalid vector index")
         ELSE nearest_entry(h, video_ids[answers[1] + 1], hash_value)

\* find_nearest_neighbor after ensure_index_built: lines 108-132.
nearest_lookup(h, index_lock, hash_value) ==
    IF index_lock = None
    THEN Ok(None)
    ELSE nearest_of_answers(h, index_lock[1].video_ids, hash_value,
                            topk_search(index_lock[1].engine, hash_value, 1))

\* find_nearest_neighbor after the parse: lines 106-132.
find_nearest_neighbor_with(h, idx, hash_value) ==
    IF ~hash_value.ok
    THEN {[index |-> idx, result |-> hash_value]}
    ELSE { IF ~b.result.ok
           THEN b
           ELSE [index |-> b.index, result |-> nearest_lookup(h, b.index, hash_value.val)]
           : b \in ensure_index_built(h, idx) }

\* VideoHashIndex::find_nearest_neighbor: the possible [index, result] outcomes.
find_nearest_neighbor(h, idx, hash) ==
    find_nearest_neighbor_with(h, idx, hash_value_of[hash.hash])

\* Insertion of e behind every element whose key is not greater.
insert_sorted(sorted, e, k) ==
    SubSeq(sorted, 1, k) \o <<e>> \o SubSeq(sorted, k + 1, Len(sorted))

insert_by_key(sorted, e) ==
    insert_sorted(sorted, e, Cardinality({i \in 1..Len(sorted) : sorted[i][2] <= e[2]}))

\* neighbors.sort_by_key(|&(_, dist)| dist): a stable sort on the distance.
RECURSIVE sort_by_key(_)
sort_by_key(neighbors) ==
    IF neighbors = <<>>
    THEN <<>>
    ELSE insert_by_key(sort_by_key(SubSeq(neighbors, 1, Len(neighbors) - 1)),
                       neighbors[Len(neighbors)])

\* (video_id, distance) of the given positions, in their order.
neighbors_of(h, video_ids, hash_value, valid) ==
    [i \in 1..Len(valid) |->
        <<video_ids[valid[i] + 1], HammingDist(hash_value, h[video_ids[valid[i] + 1]])>>]

\* Faulty variant: the bounds check on the position is off by one.
collect_neighbors_off_by_one(h, video_ids, hash_value, answers) ==
    neighbors_of(h, video_ids, hash_value,
                 SelectSeq(answers, LAMBDA p : p + 1 < Len(video_ids)))

\* The loop over the engine's answers: index.rs lines 155-164.
collect_neighbors(h, video_ids, hash_value, answers) ==
    neighbors_of(h, video_ids, hash_value,
                 SelectSeq(answers, LAMBDA p : p < Len(video_ids)))

\* Lines 155-168 for one answer sequence; the unwrap panics on a missing id.
within_of_answers(h, video_ids, hash_value, answers) ==
    IF \E i \in 1..Len(answers) :
           answers[i] < Len(video_ids) /\ video_ids[answers[i] + 1] \notin DOMAIN h
    THEN Panic
    ELSE Ok(sort_by_key(collect_neighbors(h, video_ids, hash_value, answers)))

\* find_within_distance after ensure_index_built: index.rs lines 144-168.
within_lookup(h, index_lock, hash_value, max_distance) ==
    IF index_lock = None
    THEN {Ok(<<>>)}
    ELSE { within_of_answers(h, index_lock[1].video_ids, hash_value, answers)
           : answers \in range_search(index_lock[1].engine, hash_value, max_distance) }

\* find_within_distance after the parse: lines 142-168.
find_within_distance_with(h, idx, hash_value, max_distance) ==
    IF ~hash_value.ok
    THEN {[index |-> idx, result |-> hash_value]}
    ELSE UNION { IF ~b.result.ok
                 THEN {b}
                 ELSE {[index |-> b.index, result |-> r] :
                          r \in within_lookup(h, b.index, hash_value.val, max_distance)}
                 : b \in ensure_index_built(h, idx) }

\* VideoHashIndex::find_within_distance: the possible [index, result] outcomes.
find_within_distance(h, idx, hash, max_distance) ==
    find_within_distance_with(h, idx, hash_value_of[hash.hash], max_distance)

\* Faulty variant: a removal that leaves the built index in place.
remove_keeps_index(h, idx, video_id) ==
    [hashes |-> Delete(h, video_id),
     index  |-> idx,
     result |-> Ok(video_id \in DOMAIN h)]

\* VideoHashIndex::remove
remove(h, idx, video_id) ==
    [hashes |-> Delete(h, video_id),
     index  |-> IF video_id \in DOMAIN h THEN None ELSE idx,
     result |-> Ok(video_id \in DOMAIN h)]

\* VideoHashIndex::len
len(h) == Cardinality(DOMAIN h)

-----------------------------------------------------------------------------
(* State after construction: VideoHashIndex::new(), an empty table, idle   *)
(* threads, free locks.                                                    *)

NumThreads == 2
Threads == 1..NumThreads

NoThread == 0
FreeLock == [writer |-> NoThread, readers |-> {}]

Call(op, video_id, hash, max_distance) ==
    [op |-> op, video_id |-> video_id, hash |-> hash, max_distance |-> max_distance]

NoCall == Call("none", 0, <<>>, 0)

\* A thread's frame: the call, the parsed hash_value, the rows a rebuild
\* fetched, where it continues after ensure_index_built, and the result.
Frame(call, hash_value, rows, next) ==
    [call |-> call, hash_value |-> hash_value, rows |-> rows, next |-> next,
     result |-> Ok(Unit)]

Init ==
    /\ hashes = EmptyMap
    /\ index = None
    /\ warehouse = <<>>
    /\ req = NoCall
    /\ resp = Ok(Unit)
    /\ pc = [t \in Threads |-> "idle"]
    /\ local = [t \in Threads |-> Frame(NoCall, {}, <<>>, "idle")]
    /\ hashesLock = FreeLock
    /\ indexLock = FreeLock

threadVars == <<pc, local, hashesLock, indexLock>>

-----------------------------------------------------------------------------
(* The store's operations called one at a time.                            *)

Add(video_id, s) ==
    \E out \in {add(hashes, index, video_id, [hash |-> s])} :
        /\ req' = Call("add", video_id, s, 0)
        /\ hashes' = out.hashes
        /\ index' = out.index
        /\ resp' = out.result
        /\ UNCHANGED <<warehouse, threadVars>>

HasExactMatch(video_id, s) ==
    /\ req' = Call("has_exact_match", video_id, s, 0)
    /\ resp' = has_exact_match(hashes, video_id, [hash |-> s])
    /\ UNCHANGED <<hashes, index, warehouse, threadVars>>

FindNearestNeighbor(s) ==
    \E out \in find_nearest_neighbor(hashes, index, [hash |-> s]) :
        /\ req' = Call("find_nearest_neighbor", 0, s, 0)
        /\ index' = out.index
        /\ resp' = out.result
        /\ UNCHANGED <<hashes, warehouse, threadVars>>

FindWithinDistance(s, max_distance) ==
    \E out \in find_within_distance(hashes, index, [hash |-> s], max_distance) :
        /\ req' = Call("find_within_distance", 0, s, max_distance)
        /\ index' = out.index
        /\ resp' = out.result
        /\ UNCHANGED <<hashes, warehouse, threadVars>>

Remove(video_id) ==
    \E out \in {remove(hashes, index, video_id)} :
        /\ req' = Call("remove", video_id, <<>>, 0)
        /\ hashes' = out.hashes
        /\ index' = out.index
        /\ resp' = out.result
        /\ UNCHANGED <<warehouse, threadVars>>

Length ==
    /\ req' = Call("len", 0, <<>>, 0)
    /\ resp' = Ok(len(hashes))
    /\ UNCHANGED <<hashes, index, warehouse, threadVars>>

Next ==
    \/ \E v \in VideoIds, s \in HashStrings : Add(v, s)
    \/ \E v \in VideoIds, s \in HashStrings : HasExactMatch(v, s)
    \/ \E s \in HashStrings : FindNearestNeighbor(s)
    \/ \E s \in HashStrings, r \in Radii : FindWithinDistance(s, r)
    \/ \E v \in VideoIds : Remove(v)
    \/ Length

Spec == Init /\ [][Next]_vars

-----------------------------------------------------------------------------
(* The BigQuery backup, src/src/backup.rs.  What the warehouse does is an  *)
(* input: table_check is the outcome of ensure_table_exists, outcomes[i]   *)
(* the outcome of the i-th invocation of the retried operation.            *)

BACKOFF_BASE_MS == 500

RECURSIVE Pow2(_)
Pow2(n) == IF n = 0 THEN 1 ELSE 2 * Pow2(n - 1)

\* The while loop of with_retry, from the state (retries, last_error).
RECURSIVE retry_loop(_, _, _, _, _)
retry_loop(outcomes, max_retries, retries, last_error, sleeps) ==
    IF retries < max_retries
    THEN IF outcomes[retries + 1].ok
         THEN [result |-> outcomes[retries + 1], calls |-> retries + 1, sleeps |-> sleeps]
         ELSE retry_loop(outcomes, max_retries, retries + 1,
                         Some(outcomes[retries + 1]),
                         Append(sleeps, BACKOFF_BASE_MS * Pow2(retries)))
    ELSE [result |-> IF last_error = None
                     THEN Err("Unknown error after retries")
                     ELSE last_error[1],
          calls  |-> retries,
          sleeps |-> sleeps]

\* Faulty variant: the error of the first failed invocation is kept.
with_retry_first_error(outcomes, max_retries) ==
    IF retry_loop(outcomes, max_retries, 0, None, <<>>).result.ok \/ max_retries = 0
    THEN retry_loop(outcomes, max_retries, 0, None, <<>>)
    ELSE [retry_loop(outcomes, max_retries, 0, None, <<>>) EXCEPT !.result = outcomes[1]]

\* with_retry(operation, max_retries): the result, the number of invocations
\* of the operation and the delays slept, in order.
with_retry(outcomes, max_retries) == retry_loop(outcomes, max_retries, 0, None, <<>>)

\* The row is inserted by the invocation that succeeds, if one does.
backup_result(wh, video_id, hash, run) ==
    [warehouse |-> IF run.result.ok THEN Append(wh, <<video_id, hash.hash>>) ELSE wh,
     result    |-> run.result]

\* backup_hash: the table check first (outside the retry), then the insert
\* under with_retry(.., 3).
backup_hash(wh, video_id, hash, table_check, outcomes) ==
    IF ~table_check.ok
    THEN [warehouse |-> wh, result |-> table_check]
    ELSE backup_result(wh, video_id, hash, with_retry(outcomes, BACKUP_MAX_RETRIES))

AttemptOutcomes == {Ok(TRUE), Err("insert_row failed")}
TableChecks == {Ok(Unit), Err("table_exists failed")}
RetryOutcomes == [1..BACKUP_MAX_RETRIES -> AttemptOutcomes]

-----------------------------------------------------------------------------
(* The request handlers, src/src/main.rs (search, delete_hash) and          *)
(* src/src/lib.rs (delete_hash).                                            *)

ErrorResponse(status, error) == [status |-> status, error |-> error]

\* A 200 SearchResponse; video_id 0 and distance 0 stand for match_details: None.
SearchResponse(match_found, video_id, distance, hash_added, backed_up) ==
    [status       |-> 200,
     match_found  |-> match_found,
     video_id     |-> video_id,
     distance     |-> distance,
     similarity_percentage |-> [num |-> 100 * (CODE_BITS - distance), den |-> CODE_BITS],
     hash_added   |-> hash_added,
     backed_up    |-> backed_up]

\* The answer to index.add: main.rs lines 92-106.
add_response(a) ==
    IF a.result.ok
    THEN [hashes |-> a.hashes, index |-> a.index, status |-> 200, match_found |-> FALSE,
          video_id |-> 0, distance |-> 0, hash_added |-> TRUE]
    ELSE [hashes |-> a.hashes, index |-> a.index, status |-> 500,
          error |-> "Failed to add hash"]

\* The store's part of search, main.rs lines 66-107, once find_within_distance
\* has returned f: what the handler answers, but for backed_up.
search_found(h, video_id, query_hash, f) ==
    IF ~f.result.ok
    THEN [hashes |-> h, index |-> f.index, status |-> 500, error |-> "Search failed"]
    ELSE IF f.result.val # <<>>
         THEN [hashes |-> h, index |-> f.index, status |-> 200, match_found |-> TRUE,
               video_id |-> f.result.val[1][1], distance |-> f.result.val[1][2],
               hash_added |-> FALSE]
         ELSE add_response(add(h, f.index, video_id, query_hash))

\* Faulty variant: the radius excludes distance 10.
lookup_or_insert_below_10(h, idx, video_id, query_hash) ==
    { search_found(h, video_id, query_hash, f)
      : f \in find_within_distance(h, idx, query_hash, MAX_HAMMING_DISTANCE - 1) }

\* main.rs lines 66-107: find_within_distance, then the match or the add.
lookup_or_insert(h, idx, video_id, query_hash) ==
    { search_found(h, video_id, query_hash, f)
      : f \in find_within_distance(h, idx, query_hash, MAX_HAMMING_DISTANCE) }

\* What the warehouse may answer to one backup_hash call.
BackupEnvs == TableChecks \X RetryOutcomes

\* main.rs lines 58-64: backed_up is the backup's value, false on an error.
backed_up_of(backup) == IF backup.result.ok THEN backup.result.val ELSE FALSE

\* Faulty variant: a backup error is answered with an internal error.
respond_backup_error_fatal(backup, found) ==
    [hashes    |-> found.hashes,
     index     |-> found.index,
     warehouse |-> backup.warehouse,
     response  |-> IF found.status = 200 /\ backup.result.ok
                   THEN SearchResponse(found.match_found, found.video_id, found.distance,
                                       found.hash_added, backup.result.val)
                   ELSE ErrorResponse(500, "Failed to backup hash")]

\* The handler's outcome from the backup's outcome and the store's.
respond(backup, found) ==
    [hashes    |-> found.hashes,
     index     |-> found.index,
     warehouse |-> backup.warehouse,
     response  |-> IF found.status = 200
                   THEN SearchResponse(found.match_found, found.video_id, found.distance,
                                       found.hash_added, backed_up_of(backup))
                   ELSE ErrorResponse(found.status, found.error)]

\* search of main.rs after the parse: lines 57-107.
search_with(h, idx, wh, video_id, query_hash) ==
    IF ~query_hash.ok
    THEN {[hashes |-> h, index |-> idx, warehouse |-> wh,
           response |-> ErrorResponse(400, "Invalid hash format")]}
    ELSE { respond(pair[1], pair[2])
           : pair \in { backup_hash(wh, video_id, query_hash.val, env[1], env[2])
                        : env \in BackupEnvs }
                      \X lookup_or_insert(h, idx, video_id, query_hash.val) }

\* search of main.rs: the possible [hashes, index, warehouse, response]
\* outcomes, over everything the warehouse may answer.
search(h, idx, wh, video_id, hash_str) ==
    search_with(h, idx, wh, video_id, video_hash_of[hash_str])

\* Faulty variant: every removal without an error is answered 200.
delete_response_always_ok(r) ==
    [hashes |-> r.hashes, index |-> r.index,
     response |-> IF ~r.result.ok
                  THEN ErrorResponse(500, "Failed to remove hash")
                  ELSE [status |-> 200]]

\* The response to index.remove: main.rs lines 116-124.
delete_response(r) ==
    [hashes |-> r.hashes, index |-> r.index,
     response |-> IF ~r.result.ok
                  THEN ErrorResponse(500, "Failed to remove hash")
                  ELSE IF r.result.val
                       THEN [status |-> 200]
                       ELSE ErrorResponse(404, "not found")]

\* delete_hash of main.rs and lib.rs.
delete_hash(h, idx, video_id) == delete_response(remove(h, idx, video_id))

SearchStep(video_id, s, out) ==
    /\ Len(out.warehouse) <= MaxRows
    /\ req' = Call("search", video_id, s, 0)
    /\ hashes' = out.hashes
    /\ index' = out.index
    /\ warehouse' = out.warehouse
    /\ resp' = out.response
    /\ UNCHANGED threadVars

Search(video_id, s) ==
    \E out \in search(hashes, index, warehouse, video_id, s) : SearchStep(video_id, s, out)

DeleteHash(video_id) ==
    \E out \in {delete_hash(hashes, index, video_id)} :
        /\ req' = Call("delete_hash", video_id, <<>>, 0)
        /\ hashes' = out.hashes
        /\ index' = out.index
        /\ resp' = out.response
        /\ UNCHANGED <<warehouse, threadVars>>

NextService ==
    \/ \E v \in VideoIds, s \in HashStrings : Search(v, s)
    \/ \E v \in VideoIds : DeleteHash(v)

SpecService == Init /\ [][NextService]_vars

-----------------------------------------------------------------------------
(* The store's operations run by concurrent threads, one step per lock     *)
(* acquisition (std::sync::RwLock: a writer excludes everyone, readers     *)
(* exclude writers).  A guard is released when the function returns.       *)

CanWrite(lock) == lock.writer = NoThread /\ lock.readers = {}
CanRead(lock) == lock.writer = NoThread

WriteLocked(lock, t) == [lock EXCEPT !.writer = t]
ReadLocked(lock, t) == [lock EXCEPT !.readers = @ \cup {t}]
Released(lock, t) ==
    [writer |-> IF lock.writer = t THEN NoThread ELSE lock.writer,
     readers |-> lock.readers \ {t}]

\* The function returns: every guard of the thread is dropped.
Return(t, result) ==
    /\ pc' = [pc EXCEPT ![t] = "idle"]
    /\ local' = [local EXCEPT ![t].result = result]
    /\ hashesLock' = Released(hashesLock, t)
    /\ indexLock' = Released(indexLock, t)

Goto(t, label) == pc' = [pc EXCEPT ![t] = label]

seqVars == <<warehouse, req, resp>>

\* The first lock acquisition of each operation.
Entry(op) ==
    CASE op = "add" -> "add_index_write"
      [] op = "remove" -> "remove_hashes_write"
      [] op = "has_exact_match" -> "has_hashes_read"
      [] op = "len" -> "len_hashes_read"
      [] op = "find_nearest_neighbor" -> "ensure_index_write"
      [] op = "find_within_distance" -> "ensure_index_write"
      [] op = "rebuild" -> "rebuild_hashes_write"

AfterEnsure(op) ==
    CASE op = "find_nearest_neighbor" -> "nearest_index_read"
      [] op = "find_within_distance" -> "within_index_read"
      [] op = "rebuild" -> "rebuild_len"
      [] OTHER -> "idle"

\* A thread calls an operation: the hash is parsed before any lock is taken.
Invoke(t, call, rows) ==
    /\ pc[t] = "idle"
    /\ LET hash_value == hash_value_of[call.hash]
       IN  /\ hash_value.ok
           /\ local' = [local EXCEPT ![t] = Frame(call, hash_value.val, rows,
                                                  AfterEnsure(call.op))]
    /\ pc' = [pc EXCEPT ![t] = Entry(call.op)]
    /\ UNCHANGED <<hashes, index, hashesLock, indexLock, seqVars>>

\* add, line 38-39: index.write(), *index = None.
AddLockIndex(t) ==
    /\ pc[t] = "add_index_write"
    /\ CanWrite(indexLock)
    /\ indexLock' = WriteLocked(indexLock, t)
    /\ index' = None
    /\ Goto(t, "add_hashes_write")
    /\ UNCHANGED <<hashes, local, hashesLock, seqVars>>

\* add, line 41-42: hashes.write(), insert.
AddLockHashes(t) ==
    /\ pc[t] = "add_hashes_write"
    /\ CanWrite(hashesLock)
    /\ hashesLock' = WriteLocked(hashesLock, t)
    /\ hashes' = Insert(hashes, local[t].call.video_id, local[t].hash_value)
    /\ Goto(t, "add_return")
    /\ UNCHANGED <<index, local, indexLock, seqVars>>

\* add, line 44-45.
AddReturn(t) ==
    /\ pc[t] = "add_return"
    /\ Return(t, Ok(Unit))
    /\ UNCHANGED <<hashes, index, seqVars>>

\* remove, line 172-173: hashes.write(), remove.
RemoveLockHashes(t) ==
    /\ pc[t] = "remove_hashes_write"
    /\ CanWrite(hashesLock)
    /\ hashesLock' = WriteLocked(hashesLock, t)
    /\ hashes' = Delete(hashes, local[t].call.video_id)
    /\ local' = [local EXCEPT ![t].result = Ok(local[t].call.video_id \in DOMAIN hashes)]
    /\ Goto(t, IF local[t].call.video_id \in DOMAIN hashes
               THEN "remove_index_write" ELSE "remove_return")
    /\ UNCHANGED <<index, indexLock, seqVars>>

\* Faulty variant: the remove takes the write guard but keeps the cached pair.
RemoveLockIndex_keeps_index(t) ==
    /\ pc[t] = "remove_index_write"
    /\ CanWrite(indexLock)
    /\ indexLock' = WriteLocked(indexLock, t)
    /\ Goto(t, "remove_return")
    /\ UNCHANGED <<hashes, index, local, hashesLock, seqVars>>

\* remove, line 176-177: index.write(), *index = None.
RemoveLockIndex(t) ==
    /\ pc[t] = "remove_index_write"
    /\ CanWrite(indexLock)
    /\ indexLock' = WriteLocked(indexLock, t)
    /\ index' = None
    /\ Goto(t, "remove_return")
    /\ UNCHANGED <<hashes, local, hashesLock, seqVars>>

\* remove, line 180-181.
RemoveReturn(t) ==
    /\ pc[t] = "remove_return"
    /\ Return(t, local[t].result)
    /\ UNCHANGED <<hashes, index, seqVars>>

\* has_exact_match, lines 54-59.
HasExactMatchRead(t) ==
    /\ pc[t] = "has_hashes_read"
    /\ CanRead(hashesLock)
    /\ Return(t, has_exact_match_with(hashes, local[t].call.video_id, Ok(local[t].hash_value)))
    /\ UNCHANGED <<hashes, index, seqVars>>

\* len, line 184.
LenRead(t) ==
    /\ pc[t] = "len_hashes_read"
    /\ CanRead(hashesLock)
    /\ Return(t, Ok(len(hashes)))
    /\ UNCHANGED <<hashes, index, seqVars>>

\* ensure_index_built, line 63-65: index.write(), is_none().
EnsureLockIndex(t) ==
    /\ pc[t] = "ensure_index_write"
    /\ CanWrite(indexLock)
    /\ indexLock' = WriteLocked(indexLock, t)
    /\ Goto(t, IF index = None THEN "ensure_hashes_read" ELSE "ensure_return")
    /\ UNCHANGED <<hashes, index, local, hashesLock, seqVars>>

\* ensure_index_built, lines 66-94: hashes.read(), build and store.
EnsureBuild(t) ==
    /\ pc[t] = "ensure_hashes_read"
    /\ CanRead(hashesLock)
    /\ hashesLock' = ReadLocked(hashesLock, t)
    /\ \E b \in ensure_index_built(hashes, index) :
          /\ index' = b.index
          /\ local' = [local EXCEPT ![t].result = b.result]
    /\ Goto(t, "ensure_return")
    /\ UNCHANGED <<hashes, indexLock, seqVars>>

\* ensure_index_built returns; its caller goes on, or returns the error.
EnsureReturn(t) ==
    /\ pc[t] = "ensure_return"
    /\ pc' = [pc EXCEPT ![t] = IF local[t].result.ok THEN local[t].next ELSE "idle"]
    /\ hashesLock' = Released(hashesLock, t)
    /\ indexLock' = Released(indexLock, t)
    /\ UNCHANGED <<hashes, index, local, seqVars>>

\* Lines 108-125 return before hashes is read: no index, no answer, bad position.
NearestReturnsEarly(idx, hash_value) ==
    \/ idx = None
    \/ topk_search(idx[1].engine, hash_value, 1) = <<>>
    \/ topk_search(idx[1].engine, hash_value, 1)[1] >= Len(idx[1].video_ids)

\* find_nearest_neighbor, lines 108-125: index.read(), the top-1 search.
NearestLockIndex(t) ==
    /\ pc[t] = "nearest_index_read"
    /\ CanRead(indexLock)
    /\ IF NearestReturnsEarly(index, local[t].hash_value)
       THEN Return(t, nearest_lookup(hashes, index, local[t].hash_value))
       ELSE /\ indexLock' = ReadLocked(indexLock, t)
            /\ Goto(t, "nearest_hashes_read")
            /\ UNCHANGED <<local, hashesLock>>
    /\ UNCHANGED <<hashes, index, seqVars>>

\* find_nearest_neighbor, lines 127-132: hashes.read(), the lookup.
NearestLockHashes(t) ==
    /\ pc[t] = "nearest_hashes_read"
    /\ CanRead(hashesLock)
    /\ Return(t, nearest_lookup(hashes, index, local[t].hash_value))
    /\ UNCHANGED <<hashes, index, seqVars>>

\* find_within_distance, lines 144-149: index.read().
WithinLockIndex(t) ==
    /\ pc[t] = "within_index_read"
    /\ CanRead(indexLock)
    /\ IF index = None
       THEN Return(t, Ok(<<>>))
       ELSE /\ indexLock' = ReadLocked(indexLock, t)
            /\ Goto(t, "within_hashes_read")
            /\ UNCHANGED <<local, hashesLock>>
    /\ UNCHANGED <<hashes, index, seqVars>>

\* find_within_distance, lines 150-168: hashes.read(), the range search.
WithinLockHashes(t) ==
    /\ pc[t] = "within_hashes_read"
    /\ CanRead(hashesLock)
    /\ \E r \in within_lookup(hashes, index, local[t].hash_value, local[t].call.max_distance) :
          Return(t, r)
    /\ UNCHANGED <<hashes, index, seqVars>>

\* hashes.clear() and the inserts of rebuild_from_bigquery, lines 197-202.
RECURSIVE insert_rows(_, _)
insert_rows(h, rows) ==
    IF rows = <<>>
    THEN h
    ELSE insert_rows(Insert(h, rows[1][1], hash_value_of[rows[1][2]].val), Tail(rows))

\* rebuild_from_bigquery, lines 196-202: hashes.write(), clear, insert.
RebuildLockHashes(t) ==
    /\ pc[t] = "rebuild_hashes_write"
    /\ CanWrite(hashesLock)
    /\ hashesLock' = WriteLocked(hashesLock, t)
    /\ hashes' = insert_rows(EmptyMap, local[t].rows)
    /\ Goto(t, "rebuild_index_write")
    /\ UNCHANGED <<index, local, indexLock, seqVars>>

\* rebuild_from_bigquery, lines 204-205: index.write(), *index = None.
RebuildLockIndex(t) ==
    /\ pc[t] = "rebuild_index_write"
    /\ CanWrite(indexLock)
    /\ indexLock' = WriteLocked(indexLock, t)
    /\ index' = None
    /\ Goto(t, "rebuild_unlock")
    /\ UNCHANGED <<hashes, local, hashesLock, seqVars>>

\* rebuild_from_bigquery, line 206: the block ends, both guards are dropped;
\* line 208 calls ensure_index_built.
RebuildUnlock(t) ==
    /\ pc[t] = "rebuild_unlock"
    /\ hashesLock' = Released(hashesLock, t)
    /\ indexLock' = Released(indexLock, t)
    /\ Goto(t, "ensure_index_write")
    /\ UNCHANGED <<hashes, index, local, seqVars>>

\* rebuild_from_bigquery, lines 210-212: self.len().
RebuildLen(t) ==
    /\ pc[t] = "rebuild_len"
    /\ CanRead(hashesLock)
    /\ Return(t, Ok(len(hashes)))
    /\ UNCHANGED <<hashes, index, seqVars>>

\* Inputs of the concurrent specifications.
ClientStrings == {BinaryString(LowBits(0)), BinaryString(LowBits(MAX_HAMMING_DISTANCE + 1))}
ThreadStrings == ClientStrings
ThreadRadii == {MAX_HAMMING_DISTANCE}

\* The rows a rebuild may have fetched: up to MaxRows valid rows.
FetchedRows ==
    UNION {[1..n -> VideoIds \X ThreadStrings] : n \in 0..MaxRows}

Calls(ids, strings) ==
    {Call("add", v, s, 0) : v \in ids, s \in strings}
    \cup {Call("remove", v, BinaryString({}), 0) : v \in ids}
    \cup {Call("has_exact_match", v, s, 0) : v \in ids, s \in strings}
    \cup {Call("len", 0, BinaryString({}), 0)}
    \cup {Call("find_nearest_neighbor", 0, s, 0) : s \in strings}
    \cup {Call("find_within_distance", 0, s, r) : s \in strings, r \in ThreadRadii}

StoreStep(t) ==
    \/ AddLockIndex(t)
    \/ AddLockHashes(t)
    \/ AddReturn(t)
    \/ RemoveLockHashes(t)
    \/ RemoveLockIndex(t)
    \/ RemoveReturn(t)
    \/ HasExactMatchRead(t)
    \/ LenRead(t)
    \/ EnsureLockIndex(t)
    \/ EnsureBuild(t)
    \/ EnsureReturn(t)
    \/ NearestLockIndex(t)
    \/ NearestLockHashes(t)
    \/ WithinLockIndex(t)
    \/ WithinLockHashes(t)

RebuildStep(t) ==
    \/ RebuildLockHashes(t)
    \/ RebuildLockIndex(t)
    \/ RebuildUnlock(t)
    \/ RebuildLen(t)

\* Any thread calls any operation on any identifier, the rebuild included.
NextThreads ==
    \E t \in Threads :
        \/ \E c \in Calls(VideoIds, ThreadStrings) : Invoke(t, c, <<>>)
        \/ \E rows \in FetchedRows : Invoke(t, Call("rebuild", 0, BinaryString({}), 0), rows)
        \/ StoreStep(t)
        \/ RebuildStep(t)

SpecThreads == Init /\ [][NextThreads]_vars

\* Clients working on identifiers of their own: thread t adds, removes and
\* checks only identifier t, and queries with any hash.
OwnId(t) == t

NextClients ==
    \E t \in Threads :
        \/ \E c \in Calls({OwnId(t)}, ClientStrings) : Invoke(t, c, <<>>)
        \/ StoreStep(t)

SpecClients == Init /\ [][NextClients]_vars

-----------------------------------------------------------------------------
(* The warehouse read path, src/src/bigquery.rs, the rebuild of the store   *)
(* from it, and the start of the service.  The warehouse is the sequence of *)
(* its rows <<video_id, hash>> in the order they were appended, which is    *)
(* the order of their creation times.                                       *)

MaxAppended == 3
BatchSize == 2

Reverse(s) == [i \in 1..Len(s) |-> s[Len(s) + 1 - i]]

Min(a, b) == IF a < b THEN a ELSE b

\* ORDER BY created_at DESC LIMIT batch_size OFFSET offset: newest row first.
query_page(wh, batch_size, offset) ==
    SubSeq(Reverse(wh), offset + 1, Min(offset + batch_size, Len(wh)))

\* A cell of a response row: Value::String(s), or another Value (Null here).
StringValue(s) == [tag |-> "String", s |-> s]
NullValue == [tag |-> "Null"]

\* extract_string_from_value, lines 92-97.
extract_string_from_value(value) ==
    IF value.tag = "String" THEN Some(value.s) ELSE None

\* Lines 51-72, one row with the cells f: the (video_id, hash) pushed to
\* results, or nothing.
parsed_row(f) ==
    IF Len(f) >= 2
    THEN IF extract_string_from_value(f[1]) = None
         THEN <<>>
         ELSE IF extract_string_from_value(f[2]) = None
              THEN <<>>
              ELSE IF video_hash_of[extract_string_from_value(f[2])[1]].ok
                   THEN << <<extract_string_from_value(f[1])[1],
                             extract_string_from_value(f[2])[1]>> >>
                   ELSE <<>>
    ELSE <<>>

\* Lines 50-73: what the rows of a page add to results, in the page's order.
RECURSIVE parsed_rows(_)
parsed_rows(rows) ==
    IF rows = <<>>
    THEN <<>>
    ELSE parsed_row(rows[1]) \o parsed_rows(Tail(rows))

\* Faulty variant: the next page starts one row early.
RECURSIVE fetch_loop_overlapping(_, _, _, _)
fetch_loop_overlapping(wh, batch_size, results, offset) ==
    IF query_page(wh, batch_size, offset) = <<>>
    THEN results
    ELSE IF Len(query_page(wh, batch_size, offset)) < batch_size
         THEN results \o parsed_rows(query_page(wh, batch_size, offset))
         ELSE fetch_loop_overlapping(wh, batch_size,
                         results \o parsed_rows(query_page(wh, batch_size, offset)),
                         offset + Len(query_page(wh, batch_size, offset)) - 1)

\* The loop of fetch_video_hashes, lines 18-86, from (results, offset).
RECURSIVE fetch_loop(_, _, _, _)
fetch_loop(wh, batch_size, results, offset) ==
    IF query_page(wh, batch_size, offset) = <<>>
    THEN results
    ELSE IF Len(query_page(wh, batch_size, offset)) < batch_size
         THEN results \o parsed_rows(query_page(wh, batch_size, offset))
         ELSE fetch_loop(wh, batch_size,
                         results \o parsed_rows(query_page(wh, batch_size, offset)),
                         offset + Len(query_page(wh, batch_size, offset)))

\* The offsets the loop of fetch_video_hashes puts into its queries, in order.
RECURSIVE fetch_offsets(_, _, _)
fetch_offsets(wh, batch_size, offset) ==
    IF Len(query_page(wh, batch_size, offset)) < batch_size
    THEN <<offset>>
    ELSE <<offset>> \o fetch_offsets(wh, batch_size,
                                      offset + Len(query_page(wh, batch_size, offset)))

\* fetch_video_hashes on a table of response rows: the client or a query may
\* fail; otherwise every page.
fetch_from(table) ==
    {Err("Failed to execute BigQuery query"), Ok(fetch_loop(table, BatchSize, <<>>, 0))}

\* The rows written by backup_hash as a query delivers them: two STRING cells.
table_of(wh) ==
    [i \in 1..Len(wh) |-> <<StringValue(wh[i][1]), StringValue(wh[i][2])>>]

\* fetch_video_hashes over the rows appended so far.
fetch_video_hashes(wh) == fetch_from(table_of(wh))

\* rebuild_from_bigquery after the fetch, lines 195-212: the possible
\* [hashes, index, result] outcomes.
rebuild_with(video_hashes) ==
    { [hashes |-> insert_rows(EmptyMap, video_hashes),
       index  |-> b.index,
       result |-> IF b.result.ok THEN Ok(len(insert_rows(EmptyMap, video_hashes)))
                  ELSE b.result]
      : b \in ensure_index_built(insert_rows(EmptyMap, video_hashes), None) }

\* VideoHashIndex::rebuild_from_bigquery, given what the fetch returned.
rebuild_from_bigquery(h, idx, fetched) ==
    IF ~fetched.ok
    THEN {[hashes |-> h, index |-> idx, result |-> fetched]}
    ELSE rebuild_with(fetched.val)

\* Strings stored in the warehouse: 0^64 and 0^53 1^11.
WarehouseStrings == {BinaryString(LowBits(0)), BinaryString(LowBits(MAX_HAMMING_DISTANCE + 1))}

\* backup_hash called on its own: a row is appended if the warehouse accepts it.
BackupHash(video_id, s) ==
    \E env \in BackupEnvs :
        /\ Len(warehouse) < MaxAppended
        /\ req' = Call("backup_hash", video_id, s, 0)
        /\ warehouse' = backup_hash(warehouse, video_id, [hash |-> s], env[1], env[2]).warehouse
        /\ resp' = backup_hash(warehouse, video_id, [hash |-> s], env[1], env[2]).result
        /\ UNCHANGED <<hashes, index, threadVars>>

\* rebuild_from_bigquery called on its own.
RebuildFromBigquery ==
    \E fetched \in fetch_video_hashes(warehouse) :
        \E out \in rebuild_from_bigquery(hashes, index, fetched) :
            /\ req' = Call("rebuild", 0, <<>>, 0)
            /\ hashes' = out.hashes
            /\ index' = out.index
            /\ resp' = out.result
            /\ UNCHANGED <<warehouse, threadVars>>

\* VideoHashIndex::get_all_entries, which main calls: the entries of the map
\* in one iteration order.
get_all_entries(h) ==
    {video_id_hash_pairs(h, order) : order \in Orders(DOMAIN h)}

BACKUP_BATCH_SIZE == 500

\* entries.chunks(BATCH_SIZE)
RECURSIVE chunks(_, _)
chunks(entries, size) ==
    IF entries = <<>>
    THEN <<>>
    ELSE <<SubSeq(entries, 1, Min(size, Len(entries)))>>
         \o chunks(SubSeq(entries, Min(size, Len(entries)) + 1, Len(entries)), size)

\* The loop of backup_all, lines 169-185: insert_rows per chunk, stopping at
\* the first chunk the warehouse refuses (outcomes[i] is its answer to chunk i).
RECURSIVE insert_chunks(_, _, _, _)
insert_chunks(wh, todo, outcomes, i) ==
    IF todo = <<>>
    THEN [warehouse |-> wh, result |-> Ok(Unit)]
    ELSE IF ~outcomes[i].ok
         THEN [warehouse |-> wh, result |-> outcomes[i]]
         ELSE insert_chunks(wh \o todo[1], Tail(todo), outcomes, i + 1)

\* backup_all(entries): nothing to do for no entries; else the table check,
\* then the chunks.
backup_all(wh, entries, table_check, outcomes) ==
    IF entries = <<>>
    THEN [warehouse |-> wh, result |-> Ok(Unit)]
    ELSE IF ~table_check.ok
         THEN [warehouse |-> wh, result |-> table_check]
         ELSE insert_chunks(wh, chunks(entries, BACKUP_BATCH_SIZE), outcomes, 1)

\* main up to the start of the server, lines 159-172: a new, empty store; its
\* entries are backed up if there are any; no row is fetched.
main(wh, table_check, outcomes) ==
    { [hashes |-> EmptyMap,
       index |-> None,
       warehouse |-> IF Len(entries) > 0
                     THEN backup_all(wh, entries, table_check, outcomes).warehouse
                     ELSE wh]
      : entries \in get_all_entries(EmptyMap) }

\* The process starts (again): whatever the store held is gone.
Main ==
    \E env \in BackupEnvs :
        \E out \in main(warehouse, env[1], env[2]) :
            /\ req' = Call("main", 0, <<>>, 0)
            /\ hashes' = out.hashes
            /\ index' = out.index
            /\ warehouse' = out.warehouse
            /\ resp' = Ok(Unit)
            /\ UNCHANGED threadVars

NextBootstrap ==
    \/ \E v \in VideoIds, s \in WarehouseStrings : BackupHash(v, s)
    \/ RebuildFromBigquery
    \/ Main

SpecBootstrap == Init /\ [][NextBootstrap]_vars

-----------------------------------------------------------------------------
(* with_retry on its own: the operation's answers, one per invocation, and  *)
(* the number of attempts allowed are the inputs.                           *)

MaxAttempts == 3

AnyOutcomes == {Ok(TRUE), Ok(FALSE), Err("first kind of failure"), Err("second kind of failure")}

WithRetry(outcomes, max_retries) ==
    /\ req' = [op |-> "with_retry", outcomes |-> outcomes, max_retries |-> max_retries]
    /\ resp' = with_retry(outcomes, max_retries)
    /\ UNCHANGED <<hashes, index, warehouse, threadVars>>

NextRetry ==
    \E outcomes \in [1..MaxAttempts -> AnyOutcomes], max_retries \in 0..MaxAttempts :
        WithRetry(outcomes, max_retries)

SpecRetry == Init /\ [][NextRetry]_vars

-----------------------------------------------------------------------------
(* The search handler of main.rs one await at a time, run by one worker:   *)
(* the parse, the awaited backup_hash, then the synchronous store part.    *)
(* The handler's future may be dropped while it awaits the backup, and the *)
(* process may die at any point; a restart begins with an empty store.     *)

\* What the handler knows once backup_hash has returned.
BackupDone(video_id, hash, result) ==
    [op |-> "backup_hash", video_id |-> video_id, hash |-> hash, result |-> result]

\* main.rs lines 48-55: the parse of req.hash.
SearchParse(video_id, s) ==
    /\ pc[1] = "idle"
    /\ req' = Call("search", video_id, s, 0)
    /\ IF video_hash_of[s].ok
       THEN /\ pc' = [pc EXCEPT ![1] = "search_backup"]
            /\ resp' = Ok(Unit)
       ELSE /\ pc' = pc
            /\ resp' = ErrorResponse(400, "Invalid hash format")
    /\ UNCHANGED <<hashes, index, warehouse, local, hashesLock, indexLock>>

\* Faulty variant: the handler goes on to the store without calling backup_hash.
SearchBackup_skipped ==
    /\ pc[1] = "search_backup"
    /\ pc' = [pc EXCEPT ![1] = "search_store"]
    /\ resp' = [op |-> "none", video_id |-> req.video_id, hash |-> req.hash,
                result |-> Err("backup_hash was not called")]
    /\ UNCHANGED <<hashes, index, warehouse, req, local, hashesLock, indexLock>>

\* main.rs lines 58-64: backup_hash(..).await has returned.
SearchBackup ==
    /\ pc[1] = "search_backup"
    /\ \E env \in BackupEnvs :
          LET backup == backup_hash(warehouse, req.video_id, video_hash_of[req.hash].val,
                                    env[1], env[2])
          IN  /\ Len(backup.warehouse) <= MaxRows
              /\ warehouse' = backup.warehouse
              /\ resp' = BackupDone(req.video_id, req.hash, backup.result)
    /\ pc' = [pc EXCEPT ![1] = "search_store"]
    /\ UNCHANGED <<hashes, index, req, local, hashesLock, indexLock>>

\* main.rs lines 66-107: find_within_distance, the match or the add, the response.
SearchStore ==
    /\ pc[1] = "search_store"
    /\ \E found \in lookup_or_insert(hashes, index, req.video_id, video_hash_of[req.hash].val) :
          LET out == respond([warehouse |-> warehouse, result |-> resp.result], found)
          IN  /\ hashes' = out.hashes
              /\ index' = out.index
              /\ resp' = out.response
    /\ pc' = [pc EXCEPT ![1] = "idle"]
    /\ UNCHANGED <<warehouse, req, local, hashesLock, indexLock>>

\* main.rs line 58: the future is dropped at the await; the insert that was
\* in flight has reached the warehouse or has not.
SearchCancelled ==
    /\ pc[1] = "search_backup"
    /\ \E env \in BackupEnvs :
          LET backup == backup_hash(warehouse, req.video_id, video_hash_of[req.hash].val,
                                    env[1], env[2])
          IN  /\ Len(backup.warehouse) <= MaxRows
              /\ warehouse' \in {warehouse, backup.warehouse}
    /\ pc' = [pc EXCEPT ![1] = "idle"]
    /\ resp' = [op |-> "cancelled"]
    /\ UNCHANGED <<hashes, index, req, local, hashesLock, indexLock>>

\* The process dies and is started again: main.rs line 159 creates an empty
\* store; the warehouse keeps its rows.
Crash ==
    /\ pc[1] # "idle" \/ hashes # EmptyMap
    /\ hashes' = EmptyMap
    /\ index' = None
    /\ pc' = [pc EXCEPT ![1] = "idle"]
    /\ resp' = [op |-> "crashed"]
    /\ UNCHANGED <<warehouse, req, local, hashesLock, indexLock>>

NextRequest ==
    \/ \E v \in VideoIds, s \in HashStrings : SearchParse(v, s)
    \/ SearchBackup
    \/ SearchStore
    \/ SearchCancelled
    \/ Crash
    \/ \E v \in VideoIds : pc[1] = "idle" /\ DeleteHash(v)

SpecRequest == Init /\ [][NextRequest]_vars

-----------------------------------------------------------------------------
(* The two warehouse writes of src/src/backup.rs called on their own, with *)
(* the number of times each request was sent.                              *)

\* backup_hash, lines 125-148: how often the append was attempted: once when
\* the table check fails (line 125 returns), else once per invocation of the
\* closure by with_retry.
backup_hash_attempts(table_check, outcomes) ==
    IF ~table_check.ok
    THEN 1
    ELSE with_retry(outcomes, BACKUP_MAX_RETRIES).calls

\* backup_all, lines 169-185: how often each chunk was sent: once for every
\* chunk up to the first one refused, never for the chunks after it.
RECURSIVE chunks_sent(_, _, _)
chunks_sent(todo, outcomes, i) ==
    IF todo = <<>>
    THEN <<>>
    ELSE IF ~outcomes[i].ok
         THEN <<1>> \o [k \in 1..(Len(todo) - 1) |-> 0]
         ELSE <<1>> \o chunks_sent(Tail(todo), outcomes, i + 1)

WriteEntries ==
    UNION {[1..n -> VideoIds \X WarehouseStrings] : n \in 1..MaxIds}

AppendOne(video_id, s, env) ==
    /\ Len(warehouse) < MaxAppended
    /\ req' = Call("backup_hash", video_id, s, 0)
    /\ warehouse' = backup_hash(warehouse, video_id, [hash |-> s], env[1], env[2]).warehouse
    /\ resp' = [result |-> backup_hash(warehouse, video_id, [hash |-> s], env[1], env[2]).result,
                attempts |-> backup_hash_attempts(env[1], env[2])]
    /\ UNCHANGED <<hashes, index, threadVars>>

AppendMany(entries, env) ==
    /\ Len(warehouse) < MaxAppended
    /\ req' = [op |-> "backup_all", entries |-> entries]
    /\ warehouse' = backup_all(warehouse, entries, env[1], env[2]).warehouse
    /\ resp' = [result |-> backup_all(warehouse, entries, env[1], env[2]).result,
                sent |-> IF env[1].ok
                         THEN chunks_sent(chunks(entries, BACKUP_BATCH_SIZE), env[2], 1)
                         ELSE <<>>]
    /\ UNCHANGED <<hashes, index, threadVars>>

NextWrites ==
    \/ \E v \in VideoIds, s \in WarehouseStrings, env \in BackupEnvs : AppendOne(v, s, env)
    \/ \E entries \in WriteEntries, env \in BackupEnvs : AppendMany(entries, env)

SpecWrites == Init /\ [][NextWrites]_vars

-----------------------------------------------------------------------------
(* fetch_video_hashes on its own, src/src/bigquery.rs: the table is an     *)
(* input, held unchanged in warehouse as the rows a query delivers, with   *)
(* cells of any kind.                                                      *)

FetchStrings == {BinaryString(LowBits(0)), [i \in 1..(CODE_BITS - 1) |-> "0"]}

FetchRows ==
    {<<StringValue(v), StringValue(s)>> : v \in VideoIds, s \in FetchStrings}
    \cup {<<NullValue, StringValue(BinaryString(LowBits(0)))>>,
          <<StringValue(1), NullValue>>,
          <<StringValue(1)>>}

Tables == UNION {[1..n -> FetchRows] : n \in 0..MaxAppended}

InitFetch ==
    /\ hashes = EmptyMap
    /\ index = None
    /\ warehouse \in Tables
    /\ req = NoCall
    /\ resp = Ok(Unit)
    /\ pc = [t \in Threads |-> "idle"]
    /\ local = [t \in Threads |-> Frame(NoCall, {}, <<>>, "idle")]
    /\ hashesLock = FreeLock
    /\ indexLock = FreeLock

FetchVideoHashes ==
    \E r \in fetch_from(warehouse) :
        /\ req' = Call("fetch_video_hashes", 0, <<>>, 0)
        /\ resp' = [result |-> r, offsets |-> fetch_offsets(warehouse, BatchSize, 0)]
        /\ UNCHANGED <<hashes, index, warehouse, threadVars>>

NextFetch == FetchVideoHashes

SpecFetch == InitFetch /\ [][NextFetch]_vars

-----------------------------------------------------------------------------
(* The two finds from the engine's answers on: index.rs lines 118-132 and  *)
(* 155-168, with the answers as an input that may hold any position, also  *)
(* one beyond the end of video_ids.                                        *)

AnswerPositions == 0..MaxIds

Answers(n) == UNION {[1..k -> AnswerPositions] : k \in 0..n}

\* find_nearest_neighbor, lines 118-132, on the answers of a top-1 search.
NearestOfAnswers(order, answers, s) ==
    /\ req' = [op |-> "find_nearest_neighbor", video_ids |-> order, answers |-> answers,
               hash |-> s]
    /\ resp' = nearest_of_answers(hashes, order, hash_value_of[s].val, answers)
    /\ UNCHANGED <<hashes, index, warehouse, threadVars>>

\* find_within_distance, lines 155-168, on the answers of a range search.
WithinOfAnswers(order, answers, s) ==
    /\ req' = [op |-> "find_within_distance", video_ids |-> order, answers |-> answers,
               hash |-> s]
    /\ resp' = within_of_answers(hashes, order, hash_value_of[s].val, answers)
    /\ UNCHANGED <<hashes, index, warehouse, threadVars>>

NextAnswers ==
    \/ \E v \in VideoIds, s \in ClientStrings : Add(v, s)
    \/ \E order \in Orders(DOMAIN hashes), answers \in Answers(1), s \in ClientStrings :
          NearestOfAnswers(order, answers, s)
    \/ \E order \in Orders(DOMAIN hashes), answers \in Answers(MaxIds), s \in ClientStrings :
          WithinOfAnswers(order, answers, s)

SpecAnswers == Init /\ [][NextAnswers]_vars

-----------------------------------------------------------------------------
(* The store run by one thread, with an engine whose build may fail: the   *)
(* Err arm of ensure_index_built, index.rs lines 91-93.                    *)

\* ensure_index_built, lines 66-93, when Index::with_blocks returns an error.
EnsureBuildFails(t) ==
    /\ pc[t] = "ensure_hashes_read"
    /\ CanRead(hashesLock)
    /\ DOMAIN hashes # {}
    /\ hashesLock' = ReadLocked(hashesLock, t)
    /\ \E order \in Orders(DOMAIN hashes) :
          LET b == store_built(Err("the engine refused the codes"),
                               pair_ids(video_id_hash_pairs(hashes, order)))
          IN  /\ index' = b.index
              /\ local' = [local EXCEPT ![t].result = b.result]
    /\ Goto(t, "ensure_return")
    /\ UNCHANGED <<hashes, indexLock, seqVars>>

NextBuild ==
    \/ \E c \in Calls(VideoIds, ClientStrings) : Invoke(1, c, <<>>)
    \/ StoreStep(1)
    \/ EnsureBuildFails(1)

SpecBuild == Init /\ [][NextBuild]_vars

-----------------------------------------------------------------------------
(* Vocabulary of the claims *)

\* A fingerprint is a string of exactly 64 characters, each '0' or '1'; the
\* code it denotes has the first character as its most significant bit.
\* Both are tabulated once over the strings the model uses.
Fingerprints ==
    [s \in HashStrings |->
        [valid |-> Len(s) = CODE_BITS /\ \A i \in 1..Len(s) : s[i] \in {"0", "1"},
         code |-> {CODE_BITS - i : i \in {j \in 1..Len(s) : s[j] = "1"}}]]

IsFingerprint(s) == s \in HashStrings /\ Fingerprints[s].valid

CodeOf(s) == Fingerprints[s].code

Distance(M, id, q) == Cardinality((M[id] \ q) \cup (q \ M[id]))

Within(M, q, r) == {id \in DOMAIN M : Distance(M, id, q) <= r}

MinDistance(M, q) ==
    CHOOSE d \in 0..CODE_BITS :
        /\ \E id \in DOMAIN M : Distance(M, id, q) = d
        /\ \A id \in DOMAIN M : Distance(M, id, q) >= d

\* C1: find_within_distance(q, r) returns exactly one entry (id, distance) for
\* each id of M within distance r of q, and no other entry.
C1_FindWithinExact ==
    (req.op = "find_within_distance" /\ IsFingerprint(req.hash)) =>
        /\ resp.ok
        /\ Range(resp.val) =
              {<<id, Distance(hashes, id, CodeOf(req.hash))>> :
                  id \in Within(hashes, CodeOf(req.hash), req.max_distance)}
        /\ Len(resp.val) = Cardinality(Within(hashes, CodeOf(req.hash), req.max_distance))

\* A radius-10 query over two stored ids returned one of them and left out the other.
C1_Witness ==
    /\ req.op = "find_within_distance"
    /\ req.max_distance = MAX_HAMMING_DISTANCE
    /\ Cardinality(DOMAIN hashes) = 2
    /\ resp.ok
    /\ Len(resp.val) = 1

\* C2: the list returned by find_within_distance is sorted by ascending
\* distance, and entries of equal distance by ascending identifier.
C2_SortedByDistanceThenId ==
    (req.op = "find_within_distance" /\ resp.ok) =>
        \A i, j \in 1..Len(resp.val) :
            i < j =>
                \/ resp.val[i][2] < resp.val[j][2]
                \/ resp.val[i][2] = resp.val[j][2] /\ resp.val[i][1] < resp.val[j][1]

\* C3: find_nearest_neighbor(q) returns None on an empty M and otherwise the
\* smallest identifier among the ids at minimum distance, with that distance.
C3_NearestSmallestId ==
    (req.op = "find_nearest_neighbor" /\ IsFingerprint(req.hash)) =>
        /\ resp.ok
        /\ IF DOMAIN hashes = {}
           THEN resp.val = None
           ELSE LET q == CodeOf(req.hash)
                    best == {id \in DOMAIN hashes : Distance(hashes, id, q) = MinDistance(hashes, q)}
                IN  /\ resp.val # None
                    /\ resp.val[1][2] = MinDistance(hashes, q)
                    /\ resp.val[1][1] \in best
                    /\ \A id \in best : resp.val[1][1] <= id

IsFind(c) == c.op \in {"find_nearest_neighbor", "find_within_distance"}

\* The ids in a find result: a list of (id, distance), or an Option of one.
ReturnedIds(r) == {r.val[i][1] : i \in 1..Len(r.val)}

\* C8: remove(id) returns whether id was a key; an absent id leaves M and the
\* index cell as they were; afterwards id is no key (a second remove returns
\* false) and no find returns an id that is not a key of M.
C8_RemoveThenFind ==
    [][ /\ req'.op = "remove" =>
            /\ resp' = Ok(req'.video_id \in DOMAIN hashes)
            /\ req'.video_id \notin DOMAIN hashes => (hashes' = hashes /\ index' = index)
            /\ req'.video_id \notin DOMAIN hashes'
            /\ remove(hashes', index', req'.video_id).result = Ok(FALSE)
        /\ (IsFind(req') /\ IsFingerprint(req'.hash)) =>
            /\ resp'.ok
            /\ ReturnedIds(resp') \subseteq DOMAIN hashes'
      ]_vars

\* A remove returned true and left another id in the store.
C8_Witness ==
    /\ req.op = "remove"
    /\ resp = Ok(TRUE)
    /\ DOMAIN hashes # {}

\* What a search for (id, c) must do to a store M: match iff some stored code
\* is within distance 10 of c, insert otherwise.
HasNear(M, c) == Within(M, c, MAX_HAMMING_DISTANCE) # {}

IsValidSearch(c) == c.op = "search" /\ IsFingerprint(c.hash)

\* C4: a valid search answers match_found (a stored id at minimum distance, M
\* unchanged) iff some stored code is within distance 10, and otherwise answers
\* hash_added with M[id] = c afterwards; exactly one of the two flags is set.
C4_LookupOrInsert ==
    [][ IsValidSearch(req') =>
            /\ resp'.status = 200
            /\ resp'.match_found # resp'.hash_added
            /\ HasNear(hashes, CodeOf(req'.hash)) =>
                  /\ resp'.match_found
                  /\ ~resp'.hash_added
                  /\ resp'.video_id \in DOMAIN hashes
                  /\ Distance(hashes, resp'.video_id, CodeOf(req'.hash))
                        = MinDistance(hashes, CodeOf(req'.hash))
                  /\ hashes' = hashes
            /\ ~HasNear(hashes, CodeOf(req'.hash)) =>
                  /\ ~resp'.match_found
                  /\ resp'.hash_added
                  /\ req'.video_id \in DOMAIN hashes'
                  /\ hashes'[req'.video_id] = CodeOf(req'.hash)
      ]_vars

\* A search matched a stored code at distance exactly 10.
C4_Witness ==
    /\ req.op = "search"
    /\ resp.status = 200
    /\ resp.match_found
    /\ resp.distance = MAX_HAMMING_DISTANCE

\* C5: a valid search whose backup failed (no row was added) still answers 200,
\* with backed_up = false and the lookup-or-insert outcome and change of M that
\* the store content alone determines.
C5_BackupFailureTolerated ==
    [][ (IsValidSearch(req') /\ warehouse' = warehouse) =>
            /\ resp'.status = 200
            /\ resp'.backed_up = FALSE
            /\ resp'.match_found = HasNear(hashes, CodeOf(req'.hash))
            /\ resp'.hash_added = ~HasNear(hashes, CodeOf(req'.hash))
            /\ hashes' = IF HasNear(hashes, CodeOf(req'.hash))
                         THEN hashes
                         ELSE Insert(hashes, req'.video_id, CodeOf(req'.hash))
      ]_vars

\* A search whose backup failed has inserted its hash.
C5_Witness ==
    /\ req.op = "search"
    /\ resp.status = 200
    /\ resp.hash_added
    /\ ~resp.backed_up
    /\ warehouse = <<>>

\* C6: a search whose hash string is no fingerprint is answered 400 and changes
\* neither the warehouse, nor M, nor the index cell.
C6_BadHashRejected ==
    [][ (req'.op = "search" /\ ~IsFingerprint(req'.hash)) =>
            /\ resp'.status = 400
            /\ warehouse' = warehouse
            /\ hashes' = hashes
            /\ index' = index
      ]_vars

\* A 64-character string with a foreign symbol was rejected while the index was built.
C6_Witness ==
    /\ req.op = "search"
    /\ Len(req.hash) = CODE_BITS
    /\ resp.status = 400
    /\ index # None

\* C7: delete answers 200 exactly when the id was a key and 404 otherwise;
\* afterwards the id is no key, every other entry is as before, and the
\* warehouse rows are unchanged.
C7_DeleteFrame ==
    [][ req'.op = "delete_hash" =>
            /\ resp'.status = IF req'.video_id \in DOMAIN hashes THEN 200 ELSE 404
            /\ req'.video_id \notin DOMAIN hashes'
            /\ DOMAIN hashes' = DOMAIN hashes \ {req'.video_id}
            /\ \A v \in DOMAIN hashes' : hashes'[v] = hashes[v]
            /\ warehouse' = warehouse
      ]_vars

\* A delete succeeded, leaving another entry in M and a row in the warehouse.
C7_Witness ==
    /\ req.op = "delete_hash"
    /\ resp.status = 200
    /\ hashes # EmptyMap
    /\ warehouse # <<>>

-----------------------------------------------------------------------------
(* Concurrency claims *)

\* The lock a thread is about to acquire, and how.
Wanted(t) ==
    CASE pc[t] \in {"add_index_write", "remove_index_write", "ensure_index_write",
                    "rebuild_index_write"} -> [lock |-> "index", mode |-> "write"]
      [] pc[t] \in {"add_hashes_write", "remove_hashes_write",
                    "rebuild_hashes_write"} -> [lock |-> "hashes", mode |-> "write"]
      [] pc[t] \in {"nearest_index_read", "within_index_read"} ->
                    [lock |-> "index", mode |-> "read"]
      [] pc[t] \in {"has_hashes_read", "len_hashes_read", "ensure_hashes_read",
                    "nearest_hashes_read", "within_hashes_read", "rebuild_len"} ->
                    [lock |-> "hashes", mode |-> "read"]
      [] OTHER -> [lock |-> "none", mode |-> "none"]

LockNamed(name) == IF name = "hashes" THEN hashesLock ELSE indexLock

\* Thread t cannot proceed until thread u releases a guard.
WaitsFor(t, u) ==
    /\ t # u
    /\ Wanted(t).lock # "none"
    /\ \/ LockNamed(Wanted(t).lock).writer = u
       \/ Wanted(t).mode = "write" /\ u \in LockNamed(Wanted(t).lock).readers

\* Two threads each hold the guard the other one waits for: neither returns.
Deadlocked(t, u) == WaitsFor(t, u) /\ WaitsFor(u, t)

\* C9: the store is deadlock-free: in every interleaving of the threads'
\* lock acquisitions on hashes and index, every invoked operation eventually
\* returns; so no two threads ever wait for each other's guard.
C9_DeadlockFree ==
    \A t, u \in Threads : ~Deadlocked(t, u)

\* The last call of client t was a find that returned, and the client's own
\* identifier is stored (its add returned, nothing removed it since).
FoundAfterOwnAdd(t, op) ==
    /\ pc[t] = "idle"
    /\ local[t].call.op = op
    /\ local[t].result.ok
    /\ OwnId(t) \in DOMAIN hashes

\* C10: read-your-writes for a single client: once the client's add(id, c)
\* has returned and id is still stored with c, every later
\* find_within_distance(q, r) of that client with popcount(c XOR q) <= r
\* contains id, and find_nearest_neighbor(c) returns a result at distance 0,
\* whatever other clients do to other identifiers meanwhile.
C10_ReadYourWrites ==
    \A t \in Threads :
        /\ ( /\ FoundAfterOwnAdd(t, "find_within_distance")
             /\ HammingDist(hashes[OwnId(t)], local[t].hash_value) <= local[t].call.max_distance )
           => OwnId(t) \in ReturnedIds(local[t].result)
        /\ ( /\ FoundAfterOwnAdd(t, "find_nearest_neighbor")
             /\ hashes[OwnId(t)] = local[t].hash_value )
           => /\ local[t].result.val # None
              /\ local[t].result.val[1][2] = 0

-----------------------------------------------------------------------------
(* Bootstrap claims *)

\* The last-write-wins reduction of a row sequence: each identifier with the
\* code of the row appended last for it.
LastRow(rows, id) ==
    CHOOSE i \in 1..Len(rows) :
        rows[i][1] = id /\ \A j \in (i + 1)..Len(rows) : rows[j][1] # id

LastWriteWins(rows) ==
    [id \in {rows[i][1] : i \in 1..Len(rows)} |-> CodeOf(rows[LastRow(rows, id)][2])]

\* C11: bootstrap is last-write-wins on the identifier: fetching all rows of
\* the warehouse and rebuilding yields the M whose keys are the identifiers of
\* the rows, each with the code of the row appended last for it.
C11_BootstrapLastWriteWins ==
    (req.op = "rebuild" /\ resp.ok) => hashes = LastWriteWins(warehouse)

\* C12: when the process starts with a reachable warehouse, it fetches every
\* row and bootstraps M from them before it serves, so a fingerprint appended
\* before the restart is in M after it.
C12_StartupBootstraps ==
    req.op = "main" => hashes = LastWriteWins(warehouse)

-----------------------------------------------------------------------------
(* Store claims *)

\* C13: rebuild determinism: whatever history led to M, the identifier vector
\* V that is built holds the identifiers in ascending order, so that two
\* stores holding the same M build the same V and answer alike.
C13_RebuildDeterministic ==
    index # None =>
        \A i, j \in 1..Len(index[1].video_ids) :
            i < j => index[1].video_ids[i] < index[1].video_ids[j]

-----------------------------------------------------------------------------
(* Retry claims *)

\* The invocations, among the allowed ones, that succeed.
Successes(outcomes, max_retries) == {i \in 1..max_retries : outcomes[i].ok}

\* C14: with_retry(op, max_attempts) invokes op at most max_attempts times,
\* stops at the first success and returns its value, and returns the error of
\* the last invocation when all max_attempts invocations fail.
C14_WithRetry ==
    req.op = "with_retry" =>
        /\ resp.calls <= req.max_retries
        /\ Successes(req.outcomes, req.max_retries) # {} =>
              /\ resp.calls \in Successes(req.outcomes, req.max_retries)
              /\ \A i \in Successes(req.outcomes, req.max_retries) : resp.calls <= i
              /\ resp.result = req.outcomes[resp.calls]
        /\ (Successes(req.outcomes, req.max_retries) = {} /\ req.max_retries > 0) =>
              /\ resp.calls = req.max_retries
              /\ resp.result = req.outcomes[req.max_retries]

\* Three attempts allowed: two different failures, then a success at the third.
C14_Witness ==
    /\ req.op = "with_retry"
    /\ req.max_retries = 3
    /\ ~req.outcomes[1].ok
    /\ ~req.outcomes[2].ok
    /\ req.outcomes[1] # req.outcomes[2]
    /\ resp.calls = 3
    /\ resp.result.ok

-----------------------------------------------------------------------------
(* Uniqueness *)

\* C15: identifiers are unique keys: add(id, c2) over a stored id replaces its
\* code and leaves |M| and every other entry as they were; afterwards
\* has_exact_match(id, c2) is true and has_exact_match(id, c1) is false for
\* every other code c1; has_exact_match answers M[id] = code; and every entry
\* a find returns carries the distance to the code M holds now.
C15_UniqueKeys ==
    [][ /\ ( /\ req'.op = "add"
             /\ IsFingerprint(req'.hash)
             /\ req'.video_id \in DOMAIN hashes ) =>
            /\ resp'.ok
            /\ DOMAIN hashes' = DOMAIN hashes
            /\ hashes'[req'.video_id] = CodeOf(req'.hash)
            /\ \A other \in DOMAIN hashes \ {req'.video_id} : hashes'[other] = hashes[other]
            /\ \A s \in GoodStrings :
                  has_exact_match(hashes', req'.video_id, [hash |-> s])
                      = Ok(CodeOf(s) = CodeOf(req'.hash))
        /\ (req'.op = "has_exact_match" /\ IsFingerprint(req'.hash)) =>
            resp' = Ok(/\ req'.video_id \in DOMAIN hashes
                       /\ hashes[req'.video_id] = CodeOf(req'.hash))
        /\ (req'.op = "find_within_distance" /\ IsFingerprint(req'.hash)) =>
            /\ resp'.ok
            /\ \A i \in 1..Len(resp'.val) :
                  resp'.val[i][2] = Distance(hashes', resp'.val[i][1], CodeOf(req'.hash))
        /\ (req'.op = "find_nearest_neighbor" /\ IsFingerprint(req'.hash)) =>
            /\ resp'.ok
            /\ resp'.val # None =>
                  resp'.val[1][2] = Distance(hashes', resp'.val[1][1], CodeOf(req'.hash))
      ]_vars

\* has_exact_match was asked for a stored id with a code other than the one
\* stored for it, and answered false.
C15_Witness ==
    /\ req.op = "has_exact_match"
    /\ IsFingerprint(req.hash)
    /\ req.video_id \in DOMAIN hashes
    /\ hashes[req.video_id] # CodeOf(req.hash)
    /\ resp = Ok(FALSE)

-----------------------------------------------------------------------------
(* Codec *)

TakesHash(c) ==
    c.op \in {"add", "has_exact_match", "find_nearest_neighbor", "find_within_distance"}

\* C16: a store operation that takes a hash accepts the string if and only if
\* it consists of exactly 64 characters, each '0' or '1'.
C16_AcceptsOnlyFingerprints ==
    TakesHash(req) => (resp.ok <=> IsFingerprint(req.hash))

-----------------------------------------------------------------------------
(* Invariants of the cached index *)

Mutators == {"add", "remove", "rebuild"}

MutatorInProgress == \E t \in Threads : pc[t] # "idle" /\ local[t].call.op \in Mutators

\* The cached index is absent, or V lists every key of M once and the engine's
\* code at each position is the code M holds for the identifier at it.
Aligned(M, idx) ==
    \/ idx = None
    \/ /\ Len(idx[1].video_ids) = Cardinality(DOMAIN M)
       /\ Range(idx[1].video_ids) = DOMAIN M
       /\ Len(idx[1].engine.codes) = Len(idx[1].video_ids)
       /\ \A i \in 1..Len(idx[1].video_ids) :
             idx[1].engine.codes[i] = M[idx[1].video_ids[i]]

\* C17: invariant Q1: in every state in which no mutating operation is in
\* progress and the cached index is present, V holds each key of M exactly
\* once and the engine's code at position i is M[V[i]].
C17_IndexAligned ==
    ~MutatorInProgress => Aligned(hashes, index)

\* An index over two identifiers with different codes is cached while a find
\* of another thread is in progress and after mutators have returned.
C17_Witness ==
    /\ ~MutatorInProgress
    /\ index # None
    /\ Len(index[1].video_ids) = 2
    /\ index[1].engine.codes[1] # index[1].engine.codes[2]
    /\ \E t \in Threads : pc[t] = "idle" /\ local[t].call.op = "remove" /\ local[t].result = Ok(TRUE)
    /\ \E t \in Threads : pc[t] = "within_hashes_read"

\* The operation of thread t has changed M: an add, a bootstrap replacement,
\* or a remove that found its key.
ChangedM(t) ==
    \/ local[t].call.op \in {"add", "rebuild"}
    \/ local[t].call.op = "remove" /\ local[t].result = Ok(TRUE)

\* Thread t drops its write guard on M in this step.
ReleasesHashesWrite(t) == hashesLock.writer = t /\ hashesLock'.writer # t

\* C18 (invariant Q2): whenever an operation that changed M releases its
\* write lock on M, the cached (E, V) is absent at that moment; hence whenever
\* M is not write-locked, a present (E, V) was built from the current M.
C18_InvalidatedBeforeRelease ==
    [][/\ \A t \in Threads : (ReleasesHashesWrite(t) /\ ChangedM(t)) => index' = None
       /\ (hashesLock'.writer = NoThread /\ index' # None) => Aligned(hashes', index')]_vars

\* A remove returned true and left (E, V) absent, after another thread's find
\* had been answered from a present (E, V).
C18_Witness ==
    \E t, u \in Threads :
        /\ t # u
        /\ pc[t] = "idle" /\ local[t].call.op = "remove" /\ local[t].result = Ok(TRUE)
        /\ pc[u] = "idle" /\ local[u].call.op = "find_nearest_neighbor"
        /\ local[u].result.ok /\ local[u].result.val # None
        /\ hashes # EmptyMap
        /\ index = None

\* C19: no store operation holds the write lock on M and the write lock on
\* (E, V) at the same time (add, remove, bootstrap replacement).
C19_NeverBothWriteLocks ==
    \A t \in Threads : ~(hashesLock.writer = t /\ indexLock.writer = t)

\* Thread t is inside ensure_index_built.
BuildsEngine(t) ==
    pc[t] \in {"ensure_index_write", "ensure_hashes_read", "ensure_return"}

\* Thread u has an engine build or an engine search in progress: a query
\* holding its guard on (E, V).
EngineInProgress(u) ==
    /\ local[u].call.op \in {"find_nearest_neighbor", "find_within_distance"}
    /\ (indexLock.writer = u \/ u \in indexLock.readers)

WaitsForEngine(t) == \E u \in Threads : WaitsFor(t, u) /\ EngineInProgress(u)

\* What C20 asks of a thread running add, remove or the bootstrap.
NeverTouchesEngine(t) ==
    local[t].call.op \in Mutators => (~BuildsEngine(t) /\ ~WaitsForEngine(t))

\* C20: add, remove and bootstrap never build the engine, never wait for an
\* engine build or search another thread has in progress, and leave (E, V)
\* absent when they return after changing M.
C20_MutatorsAvoidEngine ==
    [][\A t \in Threads :
          /\ NeverTouchesEngine(t)'
          /\ (pc[t] # "idle" /\ pc'[t] = "idle" /\ ChangedM(t)') => index' = None]_vars

\* The store step of the current search inserts the request's identifier.
InsertedByRequest ==
    /\ pc[1] = "search_store"
    /\ hashes' # hashes
    /\ req.video_id \in DOMAIN hashes'

\* backup_hash has returned for the request's (id, code).
BackupFinished ==
    /\ "op" \in DOMAIN resp
    /\ resp.op = "backup_hash"
    /\ resp.video_id = req.video_id
    /\ resp.hash = req.hash

C22_SleepsBetweenAttempts ==
    req.op = "with_retry" =>
        /\ \A n \in 1..Len(resp.sleeps) : resp.sleeps[n] = BACKOFF_BASE_MS * Pow2(n - 1)
        /\ resp.result.ok => Len(resp.sleeps) = resp.calls - 1
        /\ (~resp.result.ok /\ req.max_retries >= 1) => Len(resp.sleeps) = req.max_retries - 1

\* C23: every warehouse write runs under the bounded retry: a single-row
\* append surfaces an error only after 3 attempts, whichever step failed (the
\* table check included), and a batch of backup_all that is refused has been
\* sent 3 times before the error is surfaced.
C23_WritesUnderRetry ==
    /\ (req.op = "backup_hash" /\ ~resp.result.ok) => resp.attempts = BACKUP_MAX_RETRIES
    /\ (req.op = "backup_all" /\ ~resp.result.ok) =>
           \E k \in 1..Len(resp.sent) : resp.sent[k] = BACKUP_MAX_RETRIES

\* A row whose id and code are strings and whose code is a fingerprint.
ValidRow(f) ==
    /\ Len(f) >= 2
    /\ f[1].tag = "String"
    /\ f[2].tag = "String"
    /\ IsFingerprint(f[2].s)

\* The valid rows of the table, newest first, as (id, code string) pairs.
ValidRowsInOrder(table) ==
    [i \in 1..Len(SelectSeq(Reverse(table), ValidRow)) |->
        <<SelectSeq(Reverse(table), ValidRow)[i][1].s,
          SelectSeq(Reverse(table), ValidRow)[i][2].s>>]

\* C24: on a finite, unchanging table the fetch requests the pages at
\* offsets 0, P, 2P, ..., stops at the first page with fewer than P rows, and
\* returns exactly the valid rows, each once, in fetch order; invalid rows
\* are skipped without ending the fetch or shifting later pages.
C24_FetchAll ==
    req.op = "fetch_video_hashes" =>
        /\ \A k \in 1..Len(resp.offsets) : resp.offsets[k] = (k - 1) * BatchSize
        /\ Len(resp.offsets) = (Len(warehouse) \div BatchSize) + 1
        /\ resp.result.ok => resp.result.val = ValidRowsInOrder(warehouse)

\* A fetch of more than one page that skipped the newest row and returned
\* the oldest one.
C24_Witness ==
    /\ req.op = "fetch_video_hashes"
    /\ resp.result.ok
    /\ Len(warehouse) > BatchSize
    /\ ~ValidRow(warehouse[Len(warehouse)])
    /\ ValidRow(warehouse[1])
    /\ resp.result.val # <<>>

\* The engine's answers hold a position that is not an index into V.
InvalidPosition ==
    /\ req.op \in {"find_nearest_neighbor", "find_within_distance"}
    /\ "answers" \in DOMAIN req
    /\ \E i \in 1..Len(req.answers) : req.answers[i] >= Len(req.video_ids)

\* C25: whenever the engine returns a position that is not a valid index
\* into V, find_nearest_neighbor and find_within_distance both return an
\* error for the stale index: the position is not dropped and no partial
\* result is returned.
C25_StaleIndexReported ==
    InvalidPosition => ~resp.ok

Finds == {"find_nearest_neighbor", "find_within_distance"}

\* Thread 1 has returned from a find with the engine's build error.
BuildErrorReturned ==
    /\ pc[1] = "idle"
    /\ local[1].call.op \in Finds
    /\ ~local[1].result.ok

\* C26: the engine build is all-or-nothing.  A build that fails leaves
\* (E, V) absent and M unchanged and the read that triggered it returns the
\* error; a read that finds (E, V) absent attempts the build (again); on an
\* empty M nothing is built, (E, V) stays absent and the read returns None
\* or an empty list.
C26_BuildAllOrNothing ==
    [][/\ (pc[1] = "ensure_hashes_read" /\ pc'[1] = "ensure_return" /\ ~local'[1].result.ok)
          => (index' = None /\ hashes' = hashes)
       /\ (pc[1] = "ensure_return" /\ ~local[1].result.ok)
          => (pc'[1] = "idle" /\ ~local'[1].result.ok /\ index' = None /\ hashes' = hashes)
       /\ (pc[1] = "ensure_index_write" /\ pc'[1] # "ensure_index_write" /\ index = None)
          => pc'[1] = "ensure_hashes_read"
       /\ (pc[1] # "idle" /\ pc'[1] = "idle" /\ local[1].call.op \in Finds
           /\ hashes = EmptyMap)
          => /\ index' = None
             /\ local'[1].result = IF local[1].call.op = "find_nearest_neighbor"
                                    THEN Ok(None) ELSE Ok(<<>>)]_vars

\* A find on a non-empty store has returned the build error; nothing is cached.
C26_Witness ==
    /\ BuildErrorReturned
    /\ hashes # EmptyMap
    /\ index = None

\* C27: near-duplicate freedom: from an empty store, under search and delete
\* requests handled one at a time, any two distinct identifiers in M have
\* codes at Hamming distance greater than 10.
C27_NoNearDuplicates ==
    \A a, b \in DOMAIN hashes :
        a # b => HammingDist(hashes[a], hashes[b]) > MAX_HAMMING_DISTANCE

\* Two identifiers are stored and the last search, for a third code, was
\* answered with a match instead of an insertion.
C27_Witness ==
    /\ Cardinality(DOMAIN hashes) = 2
    /\ req.op = "search"
    /\ resp.status = 200
    /\ resp.match_found
    /\ resp.distance > 0

\* The search request c asks for an (id, code) that M already holds.
IsResubmission(M, c) ==
    /\ IsValidSearch(c)
    /\ c.video_id \in DOMAIN M
    /\ M[c.video_id] = CodeOf(c.hash)

\* C28: a search (id, c) issued when M[id] = c reports match_found with a
\* match at distance 0 (similarity 100), hash_added = false, and leaves M
\* unchanged, so that repeating the request changes nothing.
C28_ResubmissionIdempotent ==
    [][ IsResubmission(hashes, req') =>
            /\ resp'.status = 200
            /\ resp'.match_found
            /\ ~resp'.hash_added
            /\ resp'.distance = 0
            /\ resp'.similarity_percentage.num = 100 * resp'.similarity_percentage.den
            /\ hashes' = hashes
      ]_vars

\* A re-submitted (id, c) was answered with its own entry while another
\* identifier is stored as well.
C28_Witness ==
    /\ IsResubmission(hashes, req)
    /\ resp.status = 200
    /\ resp.match_found
    /\ resp.video_id = req.video_id
    /\ resp.distance = 0
    /\ Cardinality(DOMAIN hashes) = 2

\* Thread t holds its read guard on (E, V) and can take the one on M: it is
\* about to look identifiers of V up in M.
LooksUp(t) ==
    /\ pc[t] \in {"nearest_hashes_read", "within_hashes_read"}
    /\ CanRead(hashesLock)

\* C29: in every interleaving of add, remove, bootstrap replacement and the
\* finds, whenever a find looks an identifier of V up in M under its read
\* locks the identifier is a key of M: no find ever returns the panic of
\* hashes.get(..).unwrap().
C29_LookupsNeverFail ==
    \A t \in Threads :
        /\ local[t].result # Panic
        /\ LooksUp(t) => (index # None /\ Range(index[1].video_ids) \subseteq DOMAIN hashes)

\* A find is about to look its answer up while another thread's add waits
\* for the guard on (E, V).
C29_Witness ==
    \E t, u \in Threads :
        /\ LooksUp(t)
        /\ pc[u] = "add_index_write"
        /\ Len(index[1].video_ids) = 2

====
